---- MODULE Spec2Model ----
(***************************************************************************)
(* Model of sql2kg: the KGLikeDB trait (nodes, number_of_nodes,            *)
(* edge_classes, edges, write_kg_csvs) with Node, EdgeClass and PrimaryKey.*)
(* The catalog (sql_traits::DatabaseLike) and the PostgreSQL data source   *)
(* are inputs: a schema and the rows it stores, fixed during one export.   *)
(***************************************************************************)
EXTENDS Integers, Sequences, FiniteSets, TLC

\* ------------------------------------------------------------- bounds
MaxTables == 3
MaxKey == 2
MaxFks == 2
MaxDispatchCols == 2
MaxPayload == 1
MaxComposite == 2

Tables == 1..MaxTables
Keys == 1..MaxKey
\* the columns a foreign key may use as its host column, by column rank
FkCols == {1, 2}
NULL == 0

\* normalized_data_type values; "BIGINT" stands for every type the
\* dispatchers have no arm for
Types == {"TEXT", "VARCHAR", "INT", "UUID", "BIGINT"}

\* ------------------------------------------------------------- helpers
Range(s) == {s[i] : i \in 1..Len(s)}

RECURSIVE SeqSum(_)
SeqSum(s) == IF s = <<>> THEN 0 ELSE Head(s) + SeqSum(Tail(s))

RECURSIVE Flatten(_)
Flatten(ss) == IF ss = <<>> THEN <<>> ELSE Head(ss) \o Flatten(Tail(ss))

Min(S) == CHOOSE x \in S : \A y \in S : x <= y

\* the sequences that list every element of S once
Perms(S) == {p \in [1..Cardinality(S) -> S] : \A i, j \in 1..Cardinality(S) : i # j => p[i] # p[j]}

\* ------------------------------------------------------------- PrimaryKey
\* enum PrimaryKey { String, I32, I64, UUID, Composite }: the derived Ord
\* compares the variant index first, then the payload.
TagString == 0
TagI32 == 1
TagI64 == 2
TagUUID == 3
TagComposite == 4

PrimaryKey(tag, val) == [tag |-> tag, val |-> val]

\* Ordering as -1 (Less), 0 (Equal), 1 (Greater)
CmpInt(a, b) == IF a < b THEN -1 ELSE IF a > b THEN 1 ELSE 0

\* mutant: an ordering that compares two scalar keys by payload alone
CmpPrimaryKeyPayloadOnly(a, b) ==
    IF a.tag = TagComposite \/ b.tag = TagComposite THEN CmpInt(a.tag, b.tag)
    ELSE CmpInt(a.val, b.val)

RECURSIVE CmpPrimaryKey(_, _)
RECURSIVE CmpPrimaryKeyVec(_, _)
CmpPrimaryKeyVec(u, v) ==
    IF u = <<>> /\ v = <<>> THEN 0
    ELSE IF u = <<>> THEN -1
    ELSE IF v = <<>> THEN 1
    ELSE LET c == CmpPrimaryKey(Head(u), Head(v))
         IN IF c # 0 THEN c ELSE CmpPrimaryKeyVec(Tail(u), Tail(v))

CmpPrimaryKey(a, b) ==
    IF a.tag # b.tag THEN CmpInt(a.tag, b.tag)
    ELSE IF a.tag = TagComposite THEN CmpPrimaryKeyVec(a.val, b.val)
    ELSE CmpInt(a.val, b.val)

\* derive(PartialEq): the same variant and equal payloads, a Vec element by
\* element
RECURSIVE EqPrimaryKey(_, _)
EqPrimaryKey(a, b) ==
    /\ a.tag = b.tag
    /\ IF a.tag = TagComposite
       THEN /\ Len(a.val) = Len(b.val)
            /\ \A i \in 1..Len(a.val) : EqPrimaryKey(a.val[i], b.val[i])
       ELSE a.val = b.val

\* impl From<Vec<PrimaryKey>> for PrimaryKey
FromVec(v) == IF Len(v) = 1 THEN v[1] ELSE PrimaryKey(TagComposite, v)

\* ------------------------------------------------------------- Node, EdgeClass
\* a table is identified by its rank in the catalog's sorted table list
Node(table, primary_key) == [table |-> table, primary_key |-> primary_key]

\* mutant: an ordering of nodes that leaves the table out
CmpNodeKeyOnly(a, b) == CmpPrimaryKey(a.primary_key, b.primary_key)

CmpNode(a, b) ==
    IF a.table # b.table THEN CmpInt(a.table, b.table)
    ELSE CmpPrimaryKey(a.primary_key, b.primary_key)

EdgeClass(host_table, columns) == [host_table |-> host_table, columns |-> columns]

RECURSIVE CmpColumns(_, _)
CmpColumns(u, v) ==
    IF u = <<>> /\ v = <<>> THEN 0
    ELSE IF u = <<>> THEN -1
    ELSE IF v = <<>> THEN 1
    ELSE IF Head(u) # Head(v) THEN CmpInt(Head(u), Head(v))
    ELSE CmpColumns(Tail(u), Tail(v))

CmpEdgeClass(a, b) ==
    IF a.host_table # b.host_table THEN CmpInt(a.host_table, b.host_table)
    ELSE CmpColumns(a.columns, b.columns)

\* ------------------------------------------------------------- catalog
\* A schema is what DatabaseLike exposes: the order in which tables()
\* enumerates the tables, and per table (a table is named by its rank under
\* the ordering of DB::Table) the normalized types of its primary key
\* columns, the table it extends (0: none), the types of its other columns,
\* and the foreign keys in catalog order.  A foreign key is [host, cols,
\* ref]; ref = 0 says that it does not reference exactly the primary key of
\* its referenced table.
tables(s) == s.order

\* DatabaseLike::table_id: the position of the table in tables(), from 0
table_id(s, t) == (CHOOSE i \in DOMAIN s.order : s.order[i] = t) - 1

primary_key_columns(s, t) == s.pk[t]

is_extended(s, t) == \E c \in Tables : s.parent[c] = t

RECURSIVE AncestorsN(_, _, _)
AncestorsN(parent, t, n) ==
    IF n = 0 \/ parent[t] = 0 THEN <<>>
    ELSE <<parent[t]>> \o AncestorsN(parent, parent[t], n - 1)

\* TableLike::ancestral_extended_tables: nearest ancestor first
ancestral_extended_tables(s, t) == AncestorsN(s.parent, t, MaxTables)

foreign_keys(s, t) == SelectSeq(s.fks, LAMBDA fk : fk.host = t)

is_referenced_primary_key(s, fk) == fk.ref # 0

host_columns(s, fk) == fk.cols

\* ColumnLike::normalized_data_type of host column c of table t
normalized_data_type(s, t, c) == s.coltype[t][c]

\* ------------------------------------------------------------- inputs
PkShapes ==
    { <<>>, <<"INT">>, <<"TEXT">>, <<"BIGINT">>, <<"INT", "INT">>,
      <<"INT", "INT", "INT", "INT">> }

NoParent == [t \in Tables |-> 0]
AllInt == [t \in Tables |-> <<"INT">>]

Forests ==
    { p \in [Tables -> 0..MaxTables] :
        \A t \in Tables : t \notin Range(AncestorsN(p, t, MaxTables)) /\ p[t] # t }

\* one foreign key: [host, cols, ref]
FkOpts(hosts, cols, refs) == [host : hosts, cols : {<<c>> : c \in cols}, ref : refs]

\* foreign key lists of at most n entries, grouped by host table
FkLists(opts, n) ==
    UNION { { f \in [1..m -> opts] : \A i \in 1..m : \A j \in 1..m : i < j => f[i].host <= f[j].host }
            : m \in 0..n }

\* the foreign keys of table t that use column c and reference a primary key
PkRefs(pk, fks, t, c) ==
    { i \in DOMAIN fks : fks[i].host = t /\ fks[i].cols = <<c>> /\ fks[i].ref # 0 }

\* a foreign key that references a primary key has that key's column count
\* and column type
FksFit(pk, fks) ==
    /\ \A i \in DOMAIN fks : fks[i].ref # 0 => Len(pk[fks[i].ref]) = 1
    /\ \A i, j \in DOMAIN fks :
         (fks[i].ref # 0 /\ fks[j].ref # 0 /\ fks[i].host = fks[j].host /\ fks[i].cols = fks[j].cols)
            => pk[fks[i].ref] = pk[fks[j].ref]

ColTypes(pk, fks) ==
    [t \in Tables |-> [c \in FkCols |->
        IF PkRefs(pk, fks, t, c) = {} THEN "INT"
        ELSE pk[fks[Min(PkRefs(pk, fks, t, c))].ref][1]]]

\* tables() enumerates the tables in ascending order
Sorted == [i \in 1..MaxTables |-> i]

SchemaIn(order, pk, parent, fks) ==
    [order |-> order, pk |-> pk, parent |-> parent, fks |-> fks, coltype |-> ColTypes(pk, fks)]

Schema(pk, parent, fks) == SchemaIn(Sorted, pk, parent, fks)

\* inheritance, no foreign key, INT keys
SchemasA == { Schema(AllInt, p, <<>>) : p \in Forests }

\* at most one table extends another
OneLink == { p \in Forests : Cardinality({t \in Tables : p[t] # 0}) <= 1 }

\* one inheritance link at most and one foreign key, INT keys
SchemasF ==
    { Schema(AllInt, p, <<f>>) : p \in OneLink, f \in FkOpts(Tables, {1}, Tables) }

\* every key shape, at most one foreign key (of the first table)
SchemasB ==
    { Schema(x[1], NoParent, x[2]) :
        x \in { y \in [Tables -> PkShapes] \X FkLists(FkOpts({1}, {1}, Tables), 1) :
                  FksFit(y[1], y[2]) } }

\* several foreign keys of the first two tables, INT keys
SchemasC ==
    { Schema(AllInt, NoParent, f) : f \in FkLists(FkOpts({1, 2}, FkCols, {0, 1}), MaxFks) }

\* tables() enumerates the last two tables the other way round
LastSwapped ==
    [j \in 1..MaxTables |->
        IF j = MaxTables - 1 THEN MaxTables ELSE IF j = MaxTables THEN MaxTables - 1 ELSE j]

\* tables() does not enumerate the tables in ascending order; INT keys, at
\* most two foreign keys, from the last two tables to the first
SchemasE ==
    { SchemaIn(LastSwapped, AllInt, NoParent, f) :
        f \in FkLists(FkOpts({MaxTables - 1, MaxTables}, {1}, {1}), 2) }

\* the data: the key values each table stores (a row is identified by the
\* value k of its primary key columns) and the value the row holds in its
\* foreign key columns: NULL, or a key value that the referenced tables hold
RefsOf(s, t) == { s.fks[i].ref : i \in {j \in DOMAIN s.fks : s.fks[j].host = t /\ s.fks[j].ref # 0} }

\* a table stores no row, one row or a row per key value
RowPrefixes == { {}, {1}, Keys }

RowSets(s, sets) ==
    { r \in [Tables -> sets] : \A t \in Tables : s.parent[t] # 0 => r[t] \subseteq r[s.parent[t]] }

\* the keys every table referenced from t holds
Referable(s, r, t) == { k \in Keys : \A q \in RefsOf(s, t) : k \in r[q] }

FkValsOf(s, r, t) ==
    IF RefsOf(s, t) = {} \/ Referable(s, r, t) = {} THEN { [k \in Keys |-> NULL] }
    ELSE { [k \in Keys |-> IF k \notin set THEN NULL
                           ELSE IF k \in Referable(s, r, t) THEN k
                           ELSE Min(Referable(s, r, t))] : set \in SUBSET r[t] }

RECURSIVE FkVals(_, _, _)
FkVals(s, r, n) ==
    IF n = 0 THEN { <<>> }
    ELSE { Append(x[1], x[2]) : x \in FkVals(s, r, n - 1) \X FkValsOf(s, r, n) }

DataOver(s, sets) ==
    UNION { { [rows |-> r, fkval |-> f] : f \in FkVals(s, r, MaxTables) } : r \in RowSets(s, sets) }

\* ------------------------------------------------------------- Display
\* Display for PrimaryKey: the literal value (the variant does not show); a
\* Composite is its elements' displays joined by ", "
RECURSIVE DisplayPrimaryKey(_)
DisplayPrimaryKey(k) ==
    IF k.tag = TagComposite
    THEN Flatten([i \in 1..Len(k.val) |-> DisplayPrimaryKey(k.val[i])])
    ELSE <<k.val>>

\* Display for Node: table_name(primary key)
DisplayNode(n) == [table |-> n.table, key |-> DisplayPrimaryKey(n.primary_key)]

\* Display for EdgeClass: host_table(column names joined by ", ")
DisplayEdgeClass(e) == [table |-> e.host_table, cols |-> e.columns]

\* ------------------------------------------------------------- data source
\* "SELECT pk columns FROM t ORDER BY pk columns": rows ascending by key;
\* a row is the sequence of its primary key column values
RECURSIVE Ascending(_)
Ascending(S) == IF S = {} THEN <<>> ELSE <<Min(S)>> \o Ascending(S \ {Min(S)})

\* mutant: the rows sorted the other way round (ORDER BY ... DESC)
RECURSIVE Descending(_)
Descending(S) ==
    IF S = {} THEN <<>>
    ELSE LET m == CHOOSE x \in S : \A y \in S : y <= x IN <<m>> \o Descending(S \ {m})

OrderedRowsDescending(s, d, t) ==
    [i \in 1..Cardinality(d.rows[t]) |->
        [c \in 1..Len(primary_key_columns(s, t)) |-> Descending(d.rows[t])[i]]]

OrderedRows(s, d, t) ==
    [i \in 1..Cardinality(d.rows[t]) |->
        [c \in 1..Len(primary_key_columns(s, t)) |-> Ascending(d.rows[t])[i]]]

\* "SELECT pk columns, fk columns FROM t" with no ORDER BY: the rows in the
\* order the data source picks, each as (pk column values, fk column values)
UnorderedRows(s, d, fk, order) ==
    [i \in 1..Len(order) |->
        [pk |-> [c \in 1..Len(primary_key_columns(s, fk.host)) |-> order[i]],
         fk |-> [c \in 1..Len(host_columns(s, fk)) |-> d.fkval[fk.host][order[i]]]]]

\* "SELECT COUNT(*) FROM t"
CountRows(d, t) == Cardinality(d.rows[t])

\* ------------------------------------------------------------- nodes()
\* the tables nodes() maps over: tables().filter(!is_extended)
\* mutant: nodes() without the is_extended filter
LeafTablesUnfiltered(s) == tables(s)

LeafTables(s) == SelectSeq(tables(s), LAMBDA t : ~is_extended(s, t))

\* the match on column_types: the variant the rows are decoded to, or
\* "unimplemented"
NodeArm(column_types) ==
    IF Len(column_types) = 1 /\ column_types[1] \in {"TEXT", "VARCHAR"} THEN "String"
    ELSE IF column_types = <<"INT">> THEN "I32"
    ELSE IF column_types = <<"UUID">> THEN "UUID"
    ELSE "unimplemented"

ArmTag(arm) ==
    CASE arm = "String" -> TagString
      [] arm = "I32" -> TagI32
      [] arm = "UUID" -> TagUUID

\* mutant: nodes() without the early return for a key of 0 or more than 3
\* columns
nodesNoSkip(s, d, t) ==
    LET column_types == primary_key_columns(s, t) IN
    IF NodeArm(column_types) = "unimplemented"
    THEN [kind |-> "panic", nodes |-> <<>>]
    ELSE [kind |-> "query",
          nodes |-> [i \in 1..Len(OrderedRows(s, d, t)) |->
                       Node(t, PrimaryKey(ArmTag(NodeArm(column_types)), OrderedRows(s, d, t)[i][1]))]]

\* the closure nodes() runs for table t: "skip" (no query, Ok(vec![])),
\* "panic" (unimplemented!) or "query" with the nodes a successful load gives
nodes(s, d, t) ==
    LET column_types == primary_key_columns(s, t) IN
    IF Len(column_types) = 0 \/ Len(column_types) > 3
    THEN [kind |-> "skip", nodes |-> <<>>]
    ELSE IF NodeArm(column_types) = "unimplemented"
    THEN [kind |-> "panic", nodes |-> <<>>]
    ELSE [kind |-> "query",
          nodes |-> [i \in 1..Len(OrderedRows(s, d, t)) |->
                       Node(t, PrimaryKey(ArmTag(NodeArm(column_types)), OrderedRows(s, d, t)[i][1]))]]

\* ------------------------------------------------------------- number_of_nodes()
number_of_nodes(s, d) == SeqSum([i \in 1..Len(tables(s)) |-> CountRows(d, tables(s)[i])])

\* ------------------------------------------------------------- edge_classes()
RECURSIVE InsertEdgeClass(_, _)
InsertEdgeClass(sorted, e) ==
    IF sorted = <<>> THEN <<e>>
    ELSE IF CmpEdgeClass(e, Head(sorted)) <= 0 THEN <<e>> \o sorted
    ELSE <<Head(sorted)>> \o InsertEdgeClass(Tail(sorted), e)

RECURSIVE SortEdgeClasses(_)
SortEdgeClasses(v) ==
    IF v = <<>> THEN <<>> ELSE InsertEdgeClass(SortEdgeClasses(Tail(v)), Head(v))

\* the filter_map of one table: its foreign keys that reference a primary key
TableEdgeClasses(s, t) ==
    LET kept == SelectSeq(foreign_keys(s, t), LAMBDA fk : is_referenced_primary_key(s, fk))
    IN [i \in 1..Len(kept) |-> EdgeClass(t, host_columns(s, kept[i]))]

\* flat_map over tables(): each table's edge classes, sorted per table
edge_classes(s) ==
    Flatten([i \in 1..Len(tables(s)) |-> SortEdgeClasses(TableEdgeClasses(s, tables(s)[i]))])

\* ------------------------------------------------------------- edges()
\* the foreign keys edges() maps over, in tables() then catalog order
EdgeFks(s) ==
    Flatten([i \in 1..Len(tables(s)) |->
        SelectSeq(foreign_keys(s, tables(s)[i]),
                  LAMBDA fk : /\ is_referenced_primary_key(s, fk)
                              /\ Len(primary_key_columns(s, tables(s)[i])) > 0
                              /\ Len(primary_key_columns(s, tables(s)[i])) <= 3)])

\* mutant: the first arm takes TEXT with TEXT only
EdgeArmTextOnly(pk_types, fk_types) ==
    IF Len(pk_types) # 1 \/ Len(fk_types) # 1 THEN <<"unimplemented">>
    ELSE LET p == pk_types[1]
             f == fk_types[1]
         IN IF p = "TEXT" /\ f = "TEXT" THEN <<"String", "String">>
            ELSE IF p = "INT" /\ f = "INT" THEN <<"I32", "I32">>
            ELSE IF p = "UUID" /\ f = "UUID" THEN <<"UUID", "UUID">>
            ELSE IF p = "INT" /\ f = "UUID" THEN <<"I32", "UUID">>
            ELSE IF p = "UUID" /\ f = "INT" THEN <<"UUID", "I32">>
            ELSE IF p = "VARCHAR" /\ f = "UUID" THEN <<"String", "UUID">>
            ELSE IF p = "UUID" /\ f = "VARCHAR" THEN <<"UUID", "String">>
            ELSE <<"unimplemented">>

\* the match on (host_pk_column_types, host_column_types): the variants the
\* two projected columns are decoded to, or "unimplemented"
EdgeArm(pk_types, fk_types) ==
    IF Len(pk_types) # 1 \/ Len(fk_types) # 1 THEN <<"unimplemented">>
    ELSE LET p == pk_types[1]
             f == fk_types[1]
         IN IF p \in {"TEXT", "VARCHAR"} /\ f \in {"TEXT", "VARCHAR"} THEN <<"String", "String">>
            ELSE IF p = "INT" /\ f = "INT" THEN <<"I32", "I32">>
            ELSE IF p = "UUID" /\ f = "UUID" THEN <<"UUID", "UUID">>
            ELSE IF p = "INT" /\ f = "UUID" THEN <<"I32", "UUID">>
            ELSE IF p = "UUID" /\ f = "INT" THEN <<"UUID", "I32">>
            ELSE IF p = "VARCHAR" /\ f = "UUID" THEN <<"String", "UUID">>
            ELSE IF p = "UUID" /\ f = "VARCHAR" THEN <<"UUID", "String">>
            ELSE <<"unimplemented">>

HostColumnTypes(s, fk) ==
    [i \in 1..Len(host_columns(s, fk)) |-> normalized_data_type(s, fk.host, host_columns(s, fk)[i])]

\* mutant: only the host key is checked for NULL
DecodeEdgesKeepNull(s, fk, arm, rows) ==
    LET kept == SelectSeq(rows, LAMBDA row : row.pk[1] # NULL)
    IN [i \in 1..Len(kept) |->
          <<Node(fk.host, PrimaryKey(ArmTag(arm[1]), kept[i].pk[1])),
            Node(fk.ref, PrimaryKey(ArmTag(arm[2]), kept[i].fk[1])),
            EdgeClass(fk.host, host_columns(s, fk))>>]

\* filter_map over the loaded rows: a row with a NULL in first or first_host
\* gives nothing, any other row one (host node, referenced node, edge class)
DecodeEdges(s, fk, arm, rows) ==
    LET kept == SelectSeq(rows, LAMBDA row : row.pk[1] # NULL /\ row.fk[1] # NULL)
    IN [i \in 1..Len(kept) |->
          <<Node(fk.host, PrimaryKey(ArmTag(arm[1]), kept[i].pk[1])),
            Node(fk.ref, PrimaryKey(ArmTag(arm[2]), kept[i].fk[1])),
            EdgeClass(fk.host, host_columns(s, fk))>>]

\* the closure edges() runs for one foreign key, the data source returning
\* the host rows in the given order
edges(s, d, fk, order) ==
    LET arm == EdgeArm(primary_key_columns(s, fk.host), HostColumnTypes(s, fk)) IN
    IF arm = <<"unimplemented">>
    THEN [kind |-> "panic", edges |-> <<>>]
    ELSE [kind |-> "query", edges |-> DecodeEdges(s, fk, arm, UnorderedRows(s, d, fk, order))]

\* ------------------------------------------------------------- binary_search
\* slice::binary_search on the orderings cmps[i] = elem[i].cmp(target):
\* the index (from 0) of a match, or -1 for Err
RECURSIVE BinarySearchLoop(_, _, _)
BinarySearchLoop(cmps, base, size) ==
    IF size > 1
    THEN LET half == size \div 2
             mid == base + half
         IN BinarySearchLoop(cmps, IF cmps[mid + 1] = 1 THEN base ELSE mid, size - half)
    ELSE IF cmps[base + 1] = 0 THEN base ELSE -1

binary_search(cmps) == IF Len(cmps) = 0 THEN -1 ELSE BinarySearchLoop(cmps, 0, Len(cmps))

FindNode(v, n) == binary_search([i \in 1..Len(v) |-> CmpNode(v[i], n)])
FindEdgeClass(v, e) == binary_search([i \in 1..Len(v) |-> CmpEdgeClass(v[i], e)])

\* ------------------------------------------------------------- write_kg_csvs
VARIABLES
    schema,            \* the catalog
    data,              \* the stored rows
    pc,                \* where write_kg_csvs is
    cursor,            \* the position of the running loop (from 1)
    node_classes_csv,  \* rows of node_classes.csv
    nodes_csv,         \* rows of nodes.csv
    nodes_vec,         \* the Vec<Node> buffered for the edge pass
    capacity,          \* what number_of_nodes returned
    edge_classes_csv,  \* rows of edge_classes.csv
    edge_classes_vec,  \* the Vec<EdgeClass> buffered for the edge pass
    edges_csv,         \* rows of edges.csv
    yielded,           \* the last item the edges() iterator gave
    result,            \* the outcome of the call
    run,               \* 1: first export, 2: second export of the same database
    prev,              \* the relations the first export wrote
    dispatch,          \* the key types given to the edge dispatcher, and its arm
    compare,           \* two PrimaryKey values, their Ordering and their equality
    queried,           \* the queries sent to the data source, in order
    err                \* the display string an error carries

vars == <<schema, data, pc, cursor, node_classes_csv, nodes_csv, nodes_vec, capacity,
          edge_classes_csv, edge_classes_vec, edges_csv, yielded, result, run, prev,
          dispatch, compare, queried, err>>

outputs == <<node_classes_csv, nodes_csv, nodes_vec, capacity, edge_classes_csv,
             edge_classes_vec, edges_csv, yielded>>

Relations ==
    [node_classes |-> node_classes_csv, nodes |-> nodes_csv,
     edge_classes |-> edge_classes_csv, edges |-> edges_csv]

Fresh ==
    /\ pc = "node_classes"
    /\ cursor = 1
    /\ node_classes_csv = <<>>
    /\ nodes_csv = <<>>
    /\ nodes_vec = <<>>
    /\ capacity = 0
    /\ edge_classes_csv = <<>>
    /\ edge_classes_vec = <<>>
    /\ edges_csv = <<>>
    /\ yielded = <<>>
    /\ queried = <<>>
    /\ err = <<>>
    /\ result = "running"

InitCatalog ==
    \/ /\ schema \in SchemasA
       /\ data \in DataOver(schema, RowPrefixes)
    \/ /\ schema \in SchemasF
       /\ data \in DataOver(schema, {Keys})
    \/ /\ schema \in SchemasB
       /\ data \in DataOver(schema, {{1}})
    \/ /\ schema \in SchemasC
       /\ data \in DataOver(schema, {{1}})
    \/ /\ schema \in SchemasE
       /\ data \in DataOver(schema, {Keys})

Init ==
    /\ InitCatalog
    /\ Fresh
    /\ run = 1
    /\ prev = <<>>
    /\ dispatch = <<>>
    /\ compare = <<>>

\* the call returns (or unwinds) with the outcome; pc keeps the place
Return(outcome) ==
    /\ result' = outcome
    /\ UNCHANGED pc

Running(at) ==
    /\ result = "running"
    /\ pc = at

\* lines 411-426: node_classes.csv, one row per table of tables()
WriteNodeClasses ==
    /\ Running("node_classes")
    /\ node_classes_csv' = [i \in 1..Len(tables(schema)) |-> tables(schema)[i]]
    /\ pc' = "count"
    /\ UNCHANGED <<dispatch, compare, err, queried, schema, data, cursor, nodes_csv, nodes_vec, capacity, edge_classes_csv,
                   edge_classes_vec, edges_csv, yielded, result, run, prev>>

\* the COUNT(*) queries of number_of_nodes for the first n tables
CountQueries(s, n) == [i \in 1..n |-> <<"count", tables(s)[i]>>]

\* line 431: Vec::with_capacity(self.number_of_nodes(conn)?)
CountNodes ==
    /\ Running("count")
    /\ capacity' = number_of_nodes(schema, data)
    /\ queried' = queried \o CountQueries(schema, Len(tables(schema)))
    /\ pc' = "nodes"
    /\ cursor' = 1
    /\ UNCHANGED <<dispatch, compare, err, schema, data, node_classes_csv, nodes_csv, nodes_vec, edge_classes_csv,
                   edge_classes_vec, edges_csv, yielded, result, run, prev>>

\* the items of self.nodes(conn).zip(self.tables()).enumerate(): item i
\* (from 1) pairs the i-th table nodes() maps over with the i-th table of
\* tables(), and table_id is i - 1
ZipLen(s) == IF Len(LeafTables(s)) < Len(tables(s)) THEN Len(LeafTables(s)) ELSE Len(tables(s))
ZipNodesTable(s, i) == LeafTables(s)[i]
ZipTable(s, i) == tables(s)[i]

\* the class-ID list written for the nodes of item i: table_id, then the
\* ids of the ancestors of the zipped table
ClassIds(s, i) ==
    <<i - 1>> \o [j \in 1..Len(ancestral_extended_tables(s, ZipTable(s, i))) |->
                    table_id(s, ancestral_extended_tables(s, ZipTable(s, i))[j])]

\* lines 435-450: one iteration of the node loop
NodesStep ==
    /\ Running("nodes")
    /\ cursor <= ZipLen(schema)
    /\ LET item == nodes(schema, data, ZipNodesTable(schema, cursor)) IN
       IF item.kind = "panic"
       THEN /\ Return("panic")
            /\ UNCHANGED <<cursor, nodes_csv, nodes_vec, queried>>
       ELSE /\ queried' = IF item.kind = "query"
                          THEN Append(queried, <<"nodes", ZipNodesTable(schema, cursor)>>)
                          ELSE queried
            /\ nodes_csv' = nodes_csv \o
                  [j \in 1..Len(item.nodes) |->
                      [node |-> DisplayNode(item.nodes[j]), class_ids |-> ClassIds(schema, cursor)]]
            /\ nodes_vec' = nodes_vec \o item.nodes
            /\ cursor' = cursor + 1
            /\ UNCHANGED <<pc, result>>
    /\ UNCHANGED <<dispatch, compare, err, schema, data, node_classes_csv, capacity, edge_classes_csv,
                   edge_classes_vec, edges_csv, yielded, run, prev>>

\* debug_assert!(v.windows(2).all(|w| w[0] <= w[1]))
NodesSorted(v) == \A i \in 1..(Len(v) - 1) : CmpNode(v[i], v[i + 1]) <= 0
EdgeClassesSorted(v) == \A i \in 1..(Len(v) - 1) : CmpEdgeClass(v[i], v[i + 1]) <= 0

\* lines 451-455: the zip is exhausted, nodes.csv is flushed; a build with
\* debug assertions panics on an unsorted buffer, a build without goes on
NodesEnd ==
    /\ Running("nodes")
    /\ cursor > ZipLen(schema)
    /\ \/ /\ pc' = "edge_classes"
          /\ UNCHANGED result
       \/ /\ ~NodesSorted(nodes_vec)
          /\ Return("assert")
    /\ UNCHANGED <<dispatch, compare, err, queried, schema, data, cursor, node_classes_csv, nodes_csv, nodes_vec, capacity,
                   edge_classes_csv, edge_classes_vec, edges_csv, yielded, run, prev>>

\* lines 457-471: edge_classes.csv and the buffered edge classes
WriteEdgeClasses ==
    /\ Running("edge_classes")
    /\ edge_classes_vec' = edge_classes(schema)
    /\ edge_classes_csv' = [i \in 1..Len(edge_classes(schema)) |-> DisplayEdgeClass(edge_classes(schema)[i])]
    /\ \/ /\ pc' = "edges"
          /\ cursor' = 1
          /\ UNCHANGED result
       \/ /\ ~EdgeClassesSorted(edge_classes(schema))
          /\ Return("assert")
          /\ UNCHANGED cursor
    /\ UNCHANGED <<dispatch, compare, err, queried, schema, data, node_classes_csv, nodes_csv, nodes_vec, capacity, edges_csv,
                   yielded, run, prev>>

\* mutant: a lookup miss is reported, but the edges after it are still
\* written
RECURSIVE WriteEdgesSkipMissing(_, _, _, _)
WriteEdgesSkipMissing(es, node_vec, class_vec, written) ==
    IF es = <<>> THEN [rows |-> written, outcome |-> "running", what |-> <<>>]
    ELSE LET src_id == FindNode(node_vec, Head(es)[1])
             dst_id == FindNode(node_vec, Head(es)[2])
             edge_class_id == FindEdgeClass(class_vec, Head(es)[3])
         IN IF src_id = -1 \/ dst_id = -1
            THEN [rows |-> WriteEdgesSkipMissing(Tail(es), node_vec, class_vec, written).rows,
                  outcome |-> "NodeNotFound",
                  what |-> <<DisplayNode(Head(es)[IF src_id = -1 THEN 1 ELSE 2])>>]
            ELSE IF edge_class_id = -1
            THEN [rows |-> WriteEdgesSkipMissing(Tail(es), node_vec, class_vec, written).rows,
                  outcome |-> "EdgeClassNotFound",
                  what |-> <<DisplayEdgeClass(Head(es)[3])>>]
            ELSE WriteEdgesSkipMissing(Tail(es), node_vec, class_vec,
                                       Append(written, <<src_id, dst_id, edge_class_id>>))

\* lines 481-492: the edges of one item are resolved and written in order;
\* the first lookup miss ends the call
RECURSIVE WriteEdges(_, _, _, _)
WriteEdges(es, node_vec, class_vec, written) ==
    IF es = <<>> THEN [rows |-> written, outcome |-> "running", what |-> <<>>]
    ELSE LET src_id == FindNode(node_vec, Head(es)[1])
             dst_id == FindNode(node_vec, Head(es)[2])
             edge_class_id == FindEdgeClass(class_vec, Head(es)[3])
         IN IF src_id = -1
            THEN [rows |-> written, outcome |-> "NodeNotFound", what |-> <<DisplayNode(Head(es)[1])>>]
            ELSE IF dst_id = -1
            THEN [rows |-> written, outcome |-> "NodeNotFound", what |-> <<DisplayNode(Head(es)[2])>>]
            ELSE IF edge_class_id = -1
            THEN [rows |-> written, outcome |-> "EdgeClassNotFound",
                  what |-> <<DisplayEdgeClass(Head(es)[3])>>]
            ELSE WriteEdges(Tail(es), node_vec, class_vec,
                            Append(written, <<src_id, dst_id, edge_class_id>>))

\* lines 479-493: one iteration of the edge loop
EdgesStep ==
    /\ Running("edges")
    /\ cursor <= Len(EdgeFks(schema))
    /\ \E order \in Perms(data.rows[EdgeFks(schema)[cursor].host]) :
         LET fk == EdgeFks(schema)[cursor]
             item == edges(schema, data, fk, order)
             w == WriteEdges(item.edges, nodes_vec, edge_classes_vec, edges_csv)
         IN IF item.kind = "panic"
            THEN /\ Return("panic")
                 /\ UNCHANGED <<cursor, edges_csv, yielded, queried, err>>
            ELSE /\ yielded' = <<[fk |-> fk, order |-> order, edges |-> item.edges]>>
                 /\ queried' = Append(queried, <<"edges", fk>>)
                 /\ edges_csv' = w.rows
                 /\ err' = w.what
                 /\ IF w.outcome = "running"
                    THEN /\ cursor' = cursor + 1
                         /\ UNCHANGED <<pc, result>>
                    ELSE /\ Return(w.outcome)
                         /\ UNCHANGED cursor
    /\ UNCHANGED <<dispatch, compare, schema, data, node_classes_csv, nodes_csv, nodes_vec, capacity,
                   edge_classes_csv, edge_classes_vec, run, prev>>

\* lines 494-496: edges.csv is flushed, Ok(())
EdgesEnd ==
    /\ Running("edges")
    /\ cursor > Len(EdgeFks(schema))
    /\ Return("Ok")
    /\ UNCHANGED <<dispatch, compare, err, queried, schema, data, cursor, run, prev>>
    /\ UNCHANGED outputs

\* a query is sent at the point write_kg_csvs is at: the COUNT(*) queries, the
\* load of a table whose key has an arm, the load of a foreign key that has one
QueryPending ==
    \/ Running("count")
    \/ /\ Running("nodes")
       /\ cursor <= ZipLen(schema)
       /\ nodes(schema, data, ZipNodesTable(schema, cursor)).kind = "query"
    \/ /\ Running("edges")
       /\ cursor <= Len(EdgeFks(schema))
       /\ EdgeArm(primary_key_columns(schema, EdgeFks(schema)[cursor].host),
                  HostColumnTypes(schema, EdgeFks(schema)[cursor])) # <<"unimplemented">>

\* the `?` on a diesel::result::Error
QueryFails ==
    /\ QueryPending
    /\ Return("Diesel")
    /\ \/ /\ pc = "count"
          /\ \E n \in 1..Len(tables(schema)) : queried' = queried \o CountQueries(schema, n)
       \/ /\ pc = "nodes"
          /\ queried' = Append(queried, <<"nodes", ZipNodesTable(schema, cursor)>>)
       \/ /\ pc = "edges"
          /\ queried' = Append(queried, <<"edges", EdgeFks(schema)[cursor]>>)
    /\ UNCHANGED <<dispatch, compare, err, schema, data, cursor, run, prev>>
    /\ UNCHANGED outputs

\* the `?` on a std::io::Error of create_dir_all, File::create, writeln!, flush
IoFails ==
    /\ result = "running"
    /\ Return("Io")
    /\ UNCHANGED <<dispatch, compare, err, queried, schema, data, cursor, run, prev>>
    /\ UNCHANGED outputs

\* a second export of the same, unchanged database
Rerun ==
    /\ result = "Ok"
    /\ run = 1
    /\ run' = 2
    /\ prev' = <<Relations>>
    /\ pc' = "node_classes"
    /\ cursor' = 1
    /\ node_classes_csv' = <<>>
    /\ nodes_csv' = <<>>
    /\ nodes_vec' = <<>>
    /\ capacity' = 0
    /\ edge_classes_csv' = <<>>
    /\ edge_classes_vec' = <<>>
    /\ edges_csv' = <<>>
    /\ yielded' = <<>>
    /\ result' = "running"
    /\ queried' = <<>>
    /\ err' = <<>>
    /\ UNCHANGED <<dispatch, compare, schema, data>>

Next ==
    \/ WriteNodeClasses
    \/ CountNodes
    \/ NodesStep
    \/ NodesEnd
    \/ WriteEdgeClasses
    \/ EdgesStep
    \/ EdgesEnd
    \/ QueryFails
    \/ IoFails
    \/ Rerun

Spec == Init /\ [][Next]_vars

\* ------------------------------------------------------------- the edge dispatcher alone
\* the match of edges() on every pair of key type lists
TypeSeqs == UNION { [1..n -> Types] : n \in 1..MaxDispatchCols }

InitDispatch ==
    /\ dispatch \in [pk : TypeSeqs, fk : TypeSeqs, arm : {<<>>}]
    /\ schema = Schema(AllInt, NoParent, <<>>)
    /\ data = [rows |-> [t \in Tables |-> {}], fkval |-> [t \in Tables |-> [k \in Keys |-> NULL]]]
    /\ pc = "dispatch"
    /\ cursor = 1
    /\ node_classes_csv = <<>>
    /\ nodes_csv = <<>>
    /\ nodes_vec = <<>>
    /\ capacity = 0
    /\ edge_classes_csv = <<>>
    /\ edge_classes_vec = <<>>
    /\ edges_csv = <<>>
    /\ yielded = <<>>
    /\ queried = <<>>
    /\ err = <<>>
    /\ result = "running"
    /\ run = 1
    /\ prev = <<>>
    /\ compare = <<>>

Dispatch ==
    /\ pc = "dispatch"
    /\ dispatch.arm = <<>>
    /\ dispatch' = [dispatch EXCEPT !.arm = EdgeArm(dispatch.pk, dispatch.fk)]
    /\ UNCHANGED <<schema, data, pc, cursor, run, prev, result, compare, queried, err>>
    /\ UNCHANGED outputs

NextDispatch == Dispatch

SpecDispatch == InitDispatch /\ [][NextDispatch]_vars

\* ------------------------------------------------------------- the PrimaryKey ordering alone
\* payloads stand for the values of a variant in their natural order
Payloads == 0..MaxPayload

ScalarKeys == { PrimaryKey(tag, v) : tag \in {TagString, TagI32, TagI64, TagUUID}, v \in Payloads }

\* the elements of the Composite keys compared: the I32 keys, a String key
\* and the empty Composite
ElementKeys ==
    { PrimaryKey(TagI32, v) : v \in Payloads } \cup
    { PrimaryKey(TagString, 0), PrimaryKey(TagComposite, <<>>) }

CompositeKeys ==
    { PrimaryKey(TagComposite, v) : v \in UNION { [1..n -> ElementKeys] : n \in 0..MaxComposite } }

PrimaryKeys == ScalarKeys \cup CompositeKeys

InitOrder ==
    /\ compare \in [a : PrimaryKeys, b : PrimaryKeys, done : {FALSE}, ord : {0}, eq : {FALSE}]
    /\ dispatch = <<>>
    /\ schema = Schema(AllInt, NoParent, <<>>)
    /\ data = [rows |-> [t \in Tables |-> {}], fkval |-> [t \in Tables |-> [k \in Keys |-> NULL]]]
    /\ pc = "compare"
    /\ cursor = 1
    /\ node_classes_csv = <<>>
    /\ nodes_csv = <<>>
    /\ nodes_vec = <<>>
    /\ capacity = 0
    /\ edge_classes_csv = <<>>
    /\ edge_classes_vec = <<>>
    /\ edges_csv = <<>>
    /\ yielded = <<>>
    /\ queried = <<>>
    /\ err = <<>>
    /\ result = "running"
    /\ run = 1
    /\ prev = <<>>

\* a.cmp(&b) and a == b
Compare ==
    /\ pc = "compare"
    /\ ~compare.done
    /\ compare' = [compare EXCEPT !.done = TRUE,
                                  !.ord = CmpPrimaryKey(compare.a, compare.b),
                                  !.eq = EqPrimaryKey(compare.a, compare.b)]
    /\ UNCHANGED <<schema, data, pc, cursor, run, prev, result, dispatch, queried, err>>
    /\ UNCHANGED outputs

NextOrder == Compare

SpecOrder == InitOrder /\ [][NextOrder]_vars

\* ============================================================= claims
\* the node loop of write_kg_csvs has ended and the edge pass runs
NodePassEnded == pc \in {"edge_classes", "edges"}

\* the class-ID list of table t: its own id, then its ancestors' ids
OwnClassIds(s, t) ==
    <<table_id(s, t)>> \o [j \in 1..Len(ancestral_extended_tables(s, t)) |->
                              table_id(s, ancestral_extended_tables(s, t)[j])]

\* C1: every row of the nodes relation lists the class ID of the node's own
\* table first, then the class IDs of exactly that table's ancestors.
C1_OwnClassIds ==
    \A i \in DOMAIN nodes_csv :
        nodes_csv[i].class_ids = OwnClassIds(schema, nodes_csv[i].node.table)

\* C2: with the schema and the data unchanged between the passes,
\* write_kg_csvs never returns NodeNotFound or EdgeClassNotFound.
C2_NoLookupMiss == result \notin {"NodeNotFound", "EdgeClassNotFound"}

\* the tables that qualify for nodes: not extended, a key of 1 to 3 columns
Qualifying(s) ==
    { t \in Tables : ~is_extended(s, t) /\ Len(primary_key_columns(s, t)) \in 1..3 }

RECURSIVE SumRows(_, _)
SumRows(d, S) ==
    IF S = {} THEN 0 ELSE Cardinality(d.rows[Min(S)]) + SumRows(d, S \ {Min(S)})

\* C3: after the node pass the node at position i has global node ID i (the
\* only ID a lookup of it resolves to): the IDs are 0..N-1 without gap or
\* repeat, N is the row count of the tables that are not extended and have
\* a key of 1 to 3 columns, and no two positions hold equal Nodes.
C3_DenseNodeIds ==
    NodePassEnded =>
        /\ Len(nodes_vec) = SumRows(data, Qualifying(schema))
        /\ Len(nodes_csv) = Len(nodes_vec)
        /\ \A i \in DOMAIN nodes_vec :
             /\ FindNode(nodes_vec, nodes_vec[i]) \in {i - 1, -1}
             /\ nodes_csv[i].node = DisplayNode(nodes_vec[i])
        /\ \A i, j \in DOMAIN nodes_vec : i # j => nodes_vec[i] # nodes_vec[j]

\* C3 witness: the node pass ended with nodes of two tables buffered while
\* an extended table stores rows
C3_Witness ==
    /\ NodePassEnded
    /\ \E i, j \in DOMAIN nodes_vec : nodes_vec[i].table # nodes_vec[j].table
    /\ \E t \in Tables : is_extended(schema, t) /\ data.rows[t] # {}

\* C4: the edge-class sequence used to assign edge-class IDs is strictly
\* increasing under the EdgeClass ordering (sorted, no two equal).
C4_StrictlyIncreasing ==
    (pc = "edges") =>
        \A i \in 1..(Len(edge_classes_vec) - 1) :
            CmpEdgeClass(edge_classes_vec[i], edge_classes_vec[i + 1]) = -1

\* C5: two exports of the same schema and rows write identical relations,
\* row for row, whatever order an unsorted query returns rows in.
C5_SameRelations == (run = 2 /\ result = "Ok") => Relations = prev[1]

\* C6: an unsupported key shape is reported as an error value; the export
\* does not crash.
C6_UnsupportedIsAnError == result # "panic"

\* the variant a column of the type is decoded to
TypeTag(type) ==
    CASE type \in {"TEXT", "VARCHAR"} -> TagString
      [] type = "INT" -> TagI32
      [] type = "UUID" -> TagUUID

SupportedComposite(s, t) ==
    /\ ~is_extended(s, t)
    /\ Len(primary_key_columns(s, t)) \in {2, 3}
    /\ \E type \in {"TEXT", "VARCHAR", "INT", "UUID"} :
         \A c \in DOMAIN primary_key_columns(s, t) : primary_key_columns(s, t)[c] = type

LeafPos(s, t) == CHOOSE i \in DOMAIN LeafTables(s) : LeafTables(s)[i] = t

\* one node per row, keyed by the Composite of the row's key values
CompositeNodes(s, d, t) ==
    [i \in 1..Cardinality(d.rows[t]) |->
        Node(t, FromVec([c \in DOMAIN primary_key_columns(s, t) |->
                            PrimaryKey(TypeTag(primary_key_columns(s, t)[c]), OrderedRows(s, d, t)[i][c])]))]

\* C8: a table that is not extended and has a key of 2 or 3 columns of one
\* supported type contributes one node per row, keyed by the Composite of
\* the row's key values in column order.
C8_CompositeKeyNodes ==
    \A t \in Tables : SupportedComposite(schema, t) =>
        /\ (pc = "nodes" /\ cursor = LeafPos(schema, t)) => result # "panic"
        /\ ((pc = "nodes" /\ cursor > LeafPos(schema, t)) \/ NodePassEnded) =>
              \A i \in DOMAIN CompositeNodes(schema, data, t) :
                  \E j \in DOMAIN nodes_vec : nodes_vec[j] = CompositeNodes(schema, data, t)[i]

\* C9: a table that another table extends contributes no node, whatever
\* rows it stores, so a row shared by a base table and its derived table
\* is one node.
C9_ExtendedTableNoNodes ==
    /\ \A i \in DOMAIN nodes_vec : ~is_extended(schema, nodes_vec[i].table)
    /\ \A i \in DOMAIN nodes_csv : ~is_extended(schema, nodes_csv[i].node.table)
    /\ \A t, u \in { nodes_vec[i].table : i \in DOMAIN nodes_vec } :
         u \notin Range(ancestral_extended_tables(schema, t))

\* C9 witness: the node pass ended, a derived table gave nodes and the
\* table it extends stores the same rows
C9_Witness ==
    /\ NodePassEnded
    /\ \E i \in DOMAIN nodes_vec :
         /\ schema.parent[nodes_vec[i].table] # 0
         /\ nodes_vec[i].primary_key.val \in data.rows[schema.parent[nodes_vec[i].table]]

\* the host rows of the last foreign key read that hold no NULL
NonNullRows(d, fk) == { k \in d.rows[fk.host] : d.fkval[fk.host][k] # NULL }

\* C10: a host row with a NULL in a projected column yields no edge and no
\* error; every other host row yields exactly one edge (host node, node of
\* the referenced table keyed by the foreign key value, the edge class).
C10_NullRowsSkipped ==
    (yielded # <<>>) =>
        LET y == yielded[1]
            h == y.fk.host
        IN /\ Len(y.edges) = Cardinality(NonNullRows(data, y.fk))
           /\ \A k \in NonNullRows(data, y.fk) :
                Cardinality({ i \in DOMAIN y.edges :
                    y.edges[i] =
                      << Node(h, PrimaryKey(TypeTag(primary_key_columns(schema, h)[1]), k)),
                         Node(y.fk.ref,
                              PrimaryKey(TypeTag(normalized_data_type(schema, h, y.fk.cols[1])),
                                         data.fkval[h][k])),
                         EdgeClass(h, y.fk.cols) >> }) = 1

\* C10 witness: the edges of a foreign key were read from a host table that
\* holds a row with a NULL foreign key and a row with a value
C10_Witness ==
    /\ yielded # <<>>
    /\ Len(yielded[1].edges) >= 1
    /\ \E k \in data.rows[yielded[1].fk.host] : data.fkval[yielded[1].fk.host][k] = NULL

\* the pairs of single-column key types edges() has an arm for
ArmPairs ==
    ({"TEXT", "VARCHAR"} \X {"TEXT", "VARCHAR"}) \cup
    { <<"INT", "INT">>, <<"UUID", "UUID">>, <<"INT", "UUID">>, <<"UUID", "INT">>,
      <<"VARCHAR", "UUID">>, <<"UUID", "VARCHAR">> }

\* the pairs the specification lists
ListedPairs ==
    { <<"TEXT", "TEXT">>, <<"INT", "INT">>, <<"UUID", "UUID">>, <<"INT", "UUID">>,
      <<"UUID", "INT">>, <<"VARCHAR", "UUID">>, <<"UUID", "VARCHAR">> }

Dispatched == dispatch.arm # <<>>

SinglePair(pairs) ==
    /\ Len(dispatch.pk) = 1
    /\ Len(dispatch.fk) = 1
    /\ <<dispatch.pk[1], dispatch.fk[1]>> \in pairs

\* C7 as stated: a decode path is selected iff the pair is one of the seven
\* listed pairs.
C7_ListedPairsOnly ==
    Dispatched => ((dispatch.arm # <<"unimplemented">>) <=> SinglePair(ListedPairs))

\* C7 amended: a decode path is selected iff both sides have one column and
\* the pair is one of the four TEXT/VARCHAR pairs, INT-INT, UUID-UUID,
\* INT-UUID, UUID-INT, VARCHAR-UUID, UUID-VARCHAR; each column is then
\* decoded as its own type, and every other input reaches unimplemented!.
C7_ArmPairsOnly ==
    Dispatched =>
        /\ (dispatch.arm # <<"unimplemented">>) <=> SinglePair(ArmPairs)
        /\ SinglePair(ArmPairs) =>
             /\ ArmTag(dispatch.arm[1]) = TypeTag(dispatch.pk[1])
             /\ ArmTag(dispatch.arm[2]) = TypeTag(dispatch.fk[1])

\* C7 witness: the dispatcher decoded a VARCHAR key with a TEXT foreign key
C7_Witness ==
    /\ dispatch.pk = <<"VARCHAR">>
    /\ dispatch.fk = <<"TEXT">>
    /\ dispatch.arm = <<"String", "String">>

\* a table with no primary key or a primary key of more than 3 columns
Skipped(s, t) ==
    Len(primary_key_columns(s, t)) = 0 \/ Len(primary_key_columns(s, t)) > 3

\* the leaf tables whose rows nodes() loads
Loaded(s) == { t \in Tables : ~is_extended(s, t) /\ ~Skipped(s, t) }

\* C11: a table with no primary key, or with a primary key of more than 3
\* columns, gives no node and no error in the node pass, the pass goes on
\* to the tables after it, and no foreign key it hosts is read or gives an
\* edge.
C11_SkippedTables ==
    \A t \in Tables : Skipped(schema, t) =>
        /\ \A i \in DOMAIN nodes_vec : nodes_vec[i].table # t
        /\ \A i \in DOMAIN nodes_csv : nodes_csv[i].node.table # t
        /\ (pc = "nodes" /\ cursor <= ZipLen(schema) /\ ZipNodesTable(schema, cursor) = t)
              => result \in {"running", "Io"}
        /\ NodePassEnded =>
              \A u \in Loaded(schema) : \A k \in data.rows[u] :
                  \E i \in DOMAIN nodes_vec :
                      nodes_vec[i].table = u /\ nodes_vec[i].primary_key.val = k
        /\ (pc = "edges" /\ cursor <= Len(EdgeFks(schema)))
              => EdgeFks(schema)[cursor].host # t
        /\ \A i \in DOMAIN yielded : yielded[i].fk.host # t
        /\ \A i \in DOMAIN edges_csv :
              nodes_vec[edges_csv[i][1] + 1].table # t

\* C11 witness: the export ended Ok over a catalog whose first table has no
\* usable key, stores a row with a foreign key value and hosts a foreign key
\* that references a primary key, and a later table gave a node
C11_Witness ==
    /\ result = "Ok"
    /\ Skipped(schema, 1)
    /\ \E i \in DOMAIN schema.fks :
          /\ schema.fks[i].host = 1
          /\ is_referenced_primary_key(schema, schema.fks[i])
    /\ \E k \in data.rows[1] : data.fkval[1][k] # NULL
    /\ \E i \in DOMAIN nodes_vec : nodes_vec[i].table > 1
    /\ edges_csv = <<>>

\* the number of nodes nodes() yields over all the tables it maps over
NodesYielded(s, d) ==
    SeqSum([i \in 1..Len(LeafTables(s)) |-> Len(nodes(s, d, LeafTables(s)[i]).nodes)])

\* every item of nodes() is a list of nodes (no key shape without an arm)
NodesAllYield(s, d) ==
    \A i \in DOMAIN LeafTables(s) : nodes(s, d, LeafTables(s)[i]).kind # "panic"

\* C12: number_of_nodes returns the total number of nodes that nodes()
\* yields over all tables, for every catalog, including one with extended
\* tables or tables with no key or a key wider than 3 columns.
C12_CountIsNodeCount ==
    (pc \in {"nodes", "edge_classes", "edges"} /\ NodesAllYield(schema, data))
        => capacity = NodesYielded(schema, data)

\* u is before v element by element: at the first position where they
\* differ u holds the lesser element, or u is a proper prefix of v
LexLess(u, v) ==
    \E i \in 1..(Len(u) + 1) :
        /\ \A j \in 1..(i - 1) : j <= Len(v) /\ EqPrimaryKey(u[j], v[j])
        /\ i <= Len(v)
        /\ (i <= Len(u)) => CmpPrimaryKey(u[i], v[i]) = -1

\* C13: the PrimaryKey ordering is a total order: a value of an earlier
\* variant (String, I32, I64, UUID, Composite) is less than a value of a
\* later one, two values of one variant compare as their payloads do, two
\* Composites compare element by element, and a == b iff the comparison is
\* Equal.
C13_TotalOrder ==
    compare.done =>
        LET a == compare.a
            b == compare.b
        IN /\ compare.ord \in {-1, 0, 1}
           /\ CmpPrimaryKey(b, a) = 0 - compare.ord
           /\ \A c \in PrimaryKeys :
                (compare.ord <= 0 /\ CmpPrimaryKey(b, c) <= 0) =>
                    /\ CmpPrimaryKey(a, c) <= 0
                    /\ (compare.ord = -1 \/ CmpPrimaryKey(b, c) = -1) => CmpPrimaryKey(a, c) = -1
           /\ (a.tag < b.tag) => compare.ord = -1
           /\ (a.tag > b.tag) => compare.ord = 1
           /\ (a.tag = b.tag /\ a.tag # TagComposite) =>
                /\ (a.val < b.val) <=> (compare.ord = -1)
                /\ (a.val = b.val) <=> (compare.ord = 0)
           /\ (a.tag = TagComposite /\ b.tag = TagComposite) =>
                /\ LexLess(a.val, b.val) <=> (compare.ord = -1)
                /\ LexLess(b.val, a.val) <=> (compare.ord = 1)
           /\ compare.eq <=> (compare.ord = 0)
           /\ compare.eq <=> (a = b)

\* C13 witness: a Composite that is a proper prefix of another was compared
\* with it and found Less, the two being unequal
C13_Witness ==
    /\ compare.done
    /\ compare.a.tag = TagComposite
    /\ compare.b.tag = TagComposite
    /\ Len(compare.a.val) = 1
    /\ Len(compare.b.val) = 2
    /\ compare.a.val[1] = compare.b.val[1]
    /\ compare.ord = -1
    /\ ~compare.eq

\* C14: when the node pass ends the buffered node sequence is
\* non-decreasing under the Node ordering, for every order in which the
\* catalog enumerates the tables and every data set, and the binary
\* search finds every node that is in the sequence.
C14_NodesSorted ==
    ((pc = "nodes" /\ cursor > ZipLen(schema)) \/ NodePassEnded) =>
        /\ NodesSorted(nodes_vec)
        /\ \A i \in DOMAIN nodes_vec : FindNode(nodes_vec, nodes_vec[i]) # -1

\* the errors write_kg_csvs returns for a failed query or a lookup miss
Stopped == result \in {"Diesel", "NodeNotFound", "EdgeClassNotFound"}

\* the loads of the first n tables nodes() maps over, the skipped ones left out
NodeQueries(s, d, n) ==
    LET ts == SelectSeq(SubSeq(LeafTables(s), 1, n), LAMBDA t : nodes(s, d, t).kind = "query")
    IN [i \in 1..Len(ts) |-> <<"nodes", ts[i]>>]

\* the loads of the first n foreign keys edges() maps over
EdgeQueries(s, n) == [i \in 1..n |-> <<"edges", EdgeFks(s)[i]>>]

\* the number of nodes of the first n tables nodes() maps over
NodeRows(s, d, n) == SeqSum([i \in 1..n |-> Len(nodes(s, d, LeafTables(s)[i]).nodes)])

\* the number of edges of the first n foreign keys edges() maps over
EdgeRows(s, d, n) == SeqSum([i \in 1..n |-> Cardinality(NonNullRows(d, EdgeFks(s)[i]))])

\* the edge resolves its two nodes and its edge class
Resolves(e) ==
    /\ FindNode(nodes_vec, e[1]) # -1
    /\ FindNode(nodes_vec, e[2]) # -1
    /\ FindEdgeClass(edge_classes_vec, e[3]) # -1

\* the error a lookup miss of the edge gives: the host node first, then the
\* referenced node, then the edge class
MissOf(e) ==
    IF FindNode(nodes_vec, e[1]) = -1 THEN <<"NodeNotFound", DisplayNode(e[1])>>
    ELSE IF FindNode(nodes_vec, e[2]) = -1 THEN <<"NodeNotFound", DisplayNode(e[2])>>
    ELSE <<"EdgeClassNotFound", DisplayEdgeClass(e[3])>>

\* what a stopped export has written and queried
StoppedAtFailure ==
    /\ (result = "Diesel" /\ pc = "count") =>
          /\ \E n \in 1..Len(tables(schema)) : queried = CountQueries(schema, n)
          /\ nodes_csv = <<>> /\ edge_classes_csv = <<>> /\ edges_csv = <<>>
    /\ (result = "Diesel" /\ pc = "nodes") =>
          /\ queried = CountQueries(schema, Len(tables(schema))) \o NodeQueries(schema, data, cursor)
          /\ Len(nodes_csv) = NodeRows(schema, data, cursor - 1)
          /\ edge_classes_csv = <<>> /\ edges_csv = <<>>
    /\ (result = "Diesel" /\ pc = "edges") =>
          /\ queried = CountQueries(schema, Len(tables(schema)))
                          \o NodeQueries(schema, data, Len(LeafTables(schema)))
                          \o EdgeQueries(schema, cursor)
          /\ Len(edges_csv) = EdgeRows(schema, data, cursor - 1)
    /\ (result = "Diesel") => err = <<>>
    /\ (result \in {"NodeNotFound", "EdgeClassNotFound"}) =>
          /\ pc = "edges"
          /\ queried = CountQueries(schema, Len(tables(schema)))
                          \o NodeQueries(schema, data, Len(LeafTables(schema)))
                          \o EdgeQueries(schema, cursor)
          /\ \E j \in DOMAIN yielded[1].edges :
                /\ \A i \in 1..(j - 1) : Resolves(yielded[1].edges[i])
                /\ ~Resolves(yielded[1].edges[j])
                /\ <<result, err[1]>> = MissOf(yielded[1].edges[j])
                /\ Len(edges_csv) = EdgeRows(schema, data, cursor - 1) + (j - 1)
                /\ \A i \in 1..(j - 1) :
                      edges_csv[EdgeRows(schema, data, cursor - 1) + i] =
                        << FindNode(nodes_vec, yielded[1].edges[i][1]),
                           FindNode(nodes_vec, yielded[1].edges[i][2]),
                           FindEdgeClass(edge_classes_vec, yielded[1].edges[i][3]) >>

\* C15: as soon as a query fails or a lookup misses, the export stops: it
\* has written the rows and sent the queries up to that point and no
\* others, it returns the error (a lookup miss with the display string of
\* what was not found), and from then on nothing is written or queried and
\* the result is never Ok.
C15_StopsAtFirstFailure ==
    /\ []StoppedAtFailure
    /\ [][Stopped => (result' = result /\ Relations' = Relations /\ queried' = queried /\ err' = err)]_vars

\* C15 witness: a lookup missed on the second edge of a foreign key after
\* the first edge was written, with a foreign key left to read
C15_Witness ==
    /\ result = "NodeNotFound"
    /\ Len(edges_csv) >= 1
    /\ Len(yielded[1].edges) >= 2
    /\ cursor < Len(EdgeFks(schema))

====
